---- MODULE Spec2Model ----
(***************************************************************************)
(* A model of gcp/appengine/frontend_handlers.py, the request handlers of  *)
(* the OSV web frontend: the before_request rate-limit hook, the search,   *)
(* ecosystems and single-vulnerability handlers, and the VCS link helpers. *)
(*                                                                         *)
(* Python values are modelled as follows.  A str is a sequence of          *)
(* one-character strings (opaque strings such as URLs are one-element      *)
(* sequences holding the whole text); None is the value None below; a dict *)
(* is a function whose DOMAIN is the set of keys present.                  *)
(***************************************************************************)
EXTENDS Integers, Sequences, FiniteSets, TLC

VARIABLES
  gae_env,   \* the GAE_ENV environment variable the module was loaded under
  store,     \* the Bug entities of the datastore, in key order
  req,       \* the request being handled and how far it has got
  resp,      \* the response to the last completed request
  crawl,     \* the pages a client has fetched in sequence for one filter set
  now,       \* the current one-minute window of the clock
  counter,   \* the counting backend: (client, window) -> count, live keys only
  issued,    \* per client, the requests checked in the current window
  last,      \* the last verdict limiter.check_request returned to the hook
  inst,      \* the service instances running the hook concurrently
  link,      \* the last _commit_to_link call: its arguments and its result
  detail     \* the last add_links call: the dict before and after

varsLink == <<link, detail>>
varsWeb == <<gae_env, store, req, resp, crawl>>
varsRate == <<now, counter, issued, last>>
vars == <<gae_env, store, req, resp, crawl, now, counter, issued, last, inst,
          link, detail>>

(***************************************************************************)
(* Python values                                                           *)
(***************************************************************************)
None == <<"<None>">>

\* bool(x) of a str-or-None value: None and '' are falsy
Truthy(x) == x # None /\ x # <<>>

\* dict.get(key), None when the key is absent
DictGet(d, k) == IF k \in DOMAIN d THEN d[k] ELSE None

\* d[key] = value
DictSet(d, k, v) == [x \in DOMAIN d \cup {k} |-> IF x = k THEN v ELSE d[x]]

\* str.split(sep) for a one-character separator: the pieces between the
\* separators, empty pieces included; always at least one piece
RECURSIVE SplitFrom(_, _, _, _)
SplitFrom(s, sep, i, cur) ==
  IF i > Len(s) THEN <<cur>>
  ELSE IF s[i] = sep THEN <<cur>> \o SplitFrom(s, sep, i + 1, <<>>)
  ELSE SplitFrom(s, sep, i + 1, Append(cur, s[i]))

Split(s, sep) == SplitFrom(s, sep, 1, <<>>)

\* str.split(sep, 1): cut at the first separator only
SplitOnce(s, sep) ==
  IF \E i \in 1..Len(s) : s[i] = sep
    THEN LET p == CHOOSE i \in 1..Len(s) :
                    s[i] = sep /\ \A j \in 1..(i - 1) : s[j] # sep
         IN  <<SubSeq(s, 1, p - 1), SubSeq(s, p + 1, Len(s))>>
    ELSE <<s>>

\* sep in s
Contains(s, sep) == \E i \in 1..Len(s) : s[i] = sep

(***************************************************************************)
(* source_mapper: the VCS viewer registry (not part of this file)          *)
(***************************************************************************)
GitHubUrl == <<"https://github.com/x/y">>
GitLabUrl == <<"https://gitlab.com/x/y">>
OtherUrl == <<"ftp://example.org/y.tar">>
RepoUrls == {GitHubUrl, GitLabUrl, OtherUrl}

NoVcs == "<no viewer>"

\* get_vcs_viewer_for_url: the viewer for the URL's host, or nothing
get_vcs_viewer_for_url(repo_url) ==
  IF repo_url = GitHubUrl THEN "GitHub"
  ELSE IF repo_url = GitLabUrl THEN "GitLab"
  ELSE NoVcs

NoLink == [kind |-> "None"]

get_source_url_for_revision(vcs, repo_url, rev) ==
  [kind |-> "revision", vcs |-> vcs, repo |-> repo_url, rev |-> rev]

get_source_url_for_revision_diff(vcs, repo_url, start, end) ==
  [kind |-> "diff", vcs |-> vcs, repo |-> repo_url, start |-> start, end |-> end]

(***************************************************************************)
(* _commit_to_link and add_links                                           *)
(***************************************************************************)
unknown == <<"u", "n", "k", "n", "o", "w", "n">>

\* an exception leaving the function
Raise(exc) == [kind |-> "raise", exc |-> exc]

\* start, end = commit_parts: unpacking anything but two values raises
UnpackPair(vcs, repo_url, commit_parts) ==
  IF Len(commit_parts) # 2 THEN Raise("ValueError")
  ELSE IF commit_parts[1] = unknown THEN NoLink
  ELSE get_source_url_for_revision_diff(vcs, repo_url, commit_parts[1],
                                        commit_parts[2])

\* The length check dropped: 'a:b:c' reaches the unpacking
CommitToLinkNoLenCheck(repo_url, commit) ==
  LET vcs == get_vcs_viewer_for_url(repo_url)
      commit_parts == Split(commit, ":")
  IN  IF vcs = NoVcs THEN NoLink
      ELSE IF ~Contains(commit, ":")
        THEN get_source_url_for_revision(vcs, repo_url, commit)
      ELSE UnpackPair(vcs, repo_url, commit_parts)

_commit_to_link(repo_url, commit) ==
  LET vcs == get_vcs_viewer_for_url(repo_url)
      commit_parts == Split(commit, ":")
  IN  IF vcs = NoVcs THEN NoLink
      ELSE IF ~Contains(commit, ":")
        THEN get_source_url_for_revision(vcs, repo_url, commit)
      ELSE IF Len(commit_parts) # 2 THEN NoLink
      ELSE UnpackPair(vcs, repo_url, commit_parts)

\* The links of one range, both references resolved the same way
RangeLinks(a0) ==
  LET repo_url == DictGet(a0, "repo")
      a1 == IF Truthy(DictGet(a0, "introduced"))
              THEN DictSet(a0, "introduced_link",
                           _commit_to_link(repo_url, a0["introduced"]))
              ELSE a0
  IN  IF Truthy(DictGet(a1, "fixed"))
        THEN DictSet(a1, "fixed_link", _commit_to_link(repo_url, a1["fixed"]))
        ELSE a1

\* The type test dropped: every range with a repo gets links
AddLinksRangeAnyType(affected, i) ==
  LET a0 == DictSet(affected, "id", i)
  IN  IF ~Truthy(DictGet(a0, "repo")) THEN a0 ELSE RangeLinks(a0)

\* The body of the loop of add_links for the range at position i (0-based)
AddLinksRange(affected, i) ==
  LET a0 == DictSet(affected, "id", i)
  IN  IF a0["type"] # "GIT" THEN a0
      ELSE IF ~Truthy(DictGet(a0, "repo")) THEN a0
      ELSE RangeLinks(a0)

\* add_links(bug): the response dict after the call (Python mutates it in
\* place); a missing 'affects' or 'ranges' key is the KeyError path
add_links(bug) ==
  IF "affects" \notin DOMAIN bug THEN bug
  ELSE IF "ranges" \notin DOMAIN bug["affects"] THEN bug
  ELSE LET ranges == bug["affects"]["ranges"]
       IN  DictSet(bug, "affects",
                   DictSet(bug["affects"], "ranges",
                           [i \in 1..Len(ranges) |->
                              AddLinksRange(ranges[i], i - 1)]))

(***************************************************************************)
(* Inputs of the link helpers                                              *)
(***************************************************************************)
MaxLen == 3

CommitChars == {"a", "b", ":"}

RECURSIVE SeqsUpTo(_, _)
SeqsUpTo(S, n) ==
  IF n = 0 THEN {<<>>}
  ELSE LET shorter == SeqsUpTo(S, n - 1)
       IN  shorter \cup {Append(s, c) : s \in shorter, c \in S}

ShortRefs == SeqsUpTo(CommitChars, MaxLen)

\* commit references: short ones, and ones built around the sentinel
Commits ==
  ShortRefs
    \cup {unknown \o s : s \in ShortRefs}
    \cup {s \o unknown : s \in ShortRefs}
    \cup {SubSeq(unknown, 1, 6) \o s : s \in ShortRefs}

\* the values a range of a converted vulnerability carries
RangeRefs == {<<>>, <<"a">>, <<"a", ":", "b">>, unknown \o <<":", "b">>}
RangeRepos == {<<>>, GitHubUrl, OtherUrl}

OptField(name, values) ==
  {[x \in {} |-> None]} \cup {[x \in {name} |-> v] : v \in values}

Ranges ==
  {[x \in {"type"} |-> t] @@ r @@ i @@ f :
     t \in {"GIT", "SEMVER", "ECOSYSTEM"},
     r \in OptField("repo", RangeRepos),
     i \in OptField("introduced", RangeRefs),
     f \in OptField("fixed", RangeRefs)}

\* a second range, to exercise the positions
SecondRanges ==
  {[type |-> "GIT", repo |-> GitHubUrl, introduced |-> <<"a">>],
   [type |-> "GIT", repo |-> OtherUrl, fixed |-> <<"b">>],
   [type |-> "SEMVER", introduced |-> <<"a">>]}

RangeSeqs ==
  {<<>>} \cup {<<r>> : r \in Ranges}
         \cup {<<r, s>> : r \in Ranges, s \in SecondRanges}

\* response dicts as vulnerability_to_dict leaves them, reduced to the keys
\* add_links reads
LinkBugs ==
  {[id |-> <<"v">>], [id |-> <<"v">>, affects |-> [x \in {} |-> None]]}
    \cup {[id |-> <<"v">>, affects |-> [ranges |-> rs]] : rs \in RangeSeqs}

(***************************************************************************)
(* More of Python's str                                                    *)
(***************************************************************************)
\* str.lower() on the letters the model uses
LowerChar(c) ==
  IF c = "F" THEN "f" ELSE IF c = "O" THEN "o" ELSE IF c = "Z" THEN "z" ELSE c

Lower(s) == [i \in 1..Len(s) |-> LowerChar(s[i])]

\* ord(c)
CodePoint(c) ==
  CASE c = "." -> 46 [] c = "0" -> 48 [] c = "1" -> 49 [] c = "2" -> 50
    [] c = "G" -> 71 [] c = "I" -> 73 [] c = "P" -> 80
    [] c = "m" -> 109 [] c = "n" -> 110 [] c = "o" -> 111 [] c = "p" -> 112
    [] c = "y" -> 121 [] OTHER -> 0

\* s < t for str: the first differing character decides, a proper prefix
\* is smaller
RECURSIVE StrLessFrom(_, _, _)
StrLessFrom(s, t, i) ==
  IF i > Len(t) THEN FALSE
  ELSE IF i > Len(s) THEN TRUE
  ELSE IF s[i] = t[i] THEN StrLessFrom(s, t, i + 1)
  ELSE CodePoint(s[i]) < CodePoint(t[i])

StrLess(s, t) == StrLessFrom(s, t, 1)

\* sorted(values) of distinct strings, ascending
RECURSIVE SortedStrs(_)
SortedStrs(S) ==
  IF S = {} THEN <<>>
  ELSE LET least == CHOOSE x \in S : \A y \in S \ {x} : StrLess(x, y)
       IN  <<least>> \o SortedStrs(S \ {least})

\* list.sort(key=..., reverse=True) of entries with distinct keys
RECURSIVE SortedByTagDesc(_)
SortedByTagDesc(S) ==
  IF S = {} THEN <<>>
  ELSE LET greatest == CHOOSE x \in S : \A y \in S \ {x} : StrLess(y.tag, x.tag)
       IN  <<greatest>> \o SortedByTagDesc(S \ {greatest})

Digits == <<"0", "1", "2", "3", "4", "5", "6", "7", "8", "9">>
IsDigit(c) == \E d \in 1..10 : Digits[d] = c
DigitValue(c) == (CHOOSE d \in 1..10 : Digits[d] = c) - 1

RECURSIVE StripLeft(_)
StripLeft(s) ==
  IF s # <<>> /\ Head(s) = " " THEN StripLeft(Tail(s)) ELSE s

RECURSIVE StripRight(_)
StripRight(s) ==
  IF s # <<>> /\ s[Len(s)] = " "
    THEN StripRight(SubSeq(s, 1, Len(s) - 1)) ELSE s

RECURSIVE DigitsValue(_, _)
DigitsValue(s, acc) ==
  IF s = <<>> THEN acc ELSE DigitsValue(Tail(s), 10 * acc + DigitValue(Head(s)))

\* int(s) of a str: surrounding blanks dropped, an optional sign, then one
\* or more decimal digits; anything else is a ValueError
PyInt(s) ==
  LET t == StripRight(StripLeft(s))
      signed == t # <<>> /\ Head(t) \in {"-", "+"}
      body == IF signed THEN Tail(t) ELSE t
  IN  IF body = <<>> \/ \E i \in 1..Len(body) : ~IsDigit(body[i])
        THEN [ok |-> FALSE, val |-> 0]
        ELSE [ok |-> TRUE,
              val |-> IF signed /\ Head(t) = "-"
                        THEN 0 - DigitsValue(body, 0)
                        ELSE DigitsValue(body, 0)]

(***************************************************************************)
(* osv: the Bug entities and their conversion (not part of this file)      *)
(***************************************************************************)
Go == <<"G", "o">>
PyPI == <<"P", "y", "P", "I">>
Npm == <<"n", "p", "m">>
Fo == <<"f", "o">>
Zz == <<"z", "z">>

\* the key of the i-th entity: 'v' and two digits
IdStr(i) == <<"v", Digits[(i \div 10) + 1], Digits[(i % 10) + 1]>>

StatusOf(i, s) ==
  LET k == (i + s) % 9
  IN  IF k = 3 THEN "UNPROCESSED" ELSE IF k = 6 THEN "INVALID" ELSE "PROCESSED"

EcosystemOf(i, s) ==
  LET k == (i * (s + 1)) % 6
  IN  IF k = 0 THEN None ELSE IF k = 3 THEN <<>> ELSE IF k = 4 THEN Npm
      ELSE IF k = 5 THEN PyPI ELSE Go

IndicesOf(i) ==
  LET k == i % 4
  IN  IF k = 0 THEN {} ELSE IF k = 1 THEN {Fo} ELSE IF k = 2 THEN {Fo, Zz}
      ELSE {Zz}

RangesOf(i) ==
  LET k == i % 4
  IN  IF k = 0 THEN <<>>
      ELSE IF k = 1
        THEN <<[type |-> "GIT", repo |-> GitHubUrl,
                introduced |-> <<"a">>, fixed |-> <<"a", ":", "b">>]>>
      ELSE IF k = 2
        THEN <<[type |-> "SEMVER", introduced |-> <<"a">>],
               [type |-> "GIT", repo |-> OtherUrl, fixed |-> <<"b">>]>>
      ELSE <<[type |-> "GIT", introduced |-> <<"a">>]>>

\* the i-th Bug entity of the store built from seed s
Bug(i, s) ==
  [key |-> IdStr(i),
   status |-> StatusOf(i, s),
   public |-> (i + 2 * s) % 7 # 1,
   ecosystem |-> EcosystemOf(i, s),
   search_indices |-> IndicesOf(i),
   has_affected |-> i % 3 # 0,
   last_modified |-> (i * 7 + s) % 11,
   is_fixed |-> i % 2 = 0,
   ranges |-> RangesOf(i),
   source_of_truth |-> IF i % 2 = 0 THEN "INTERNAL" ELSE "SOURCE_REPO",
   source |-> IF i % 3 = 0 THEN <<"oss-fuzz">> ELSE <<"other">>]

MakeStore(n, s) == [i \in 1..n |-> Bug(i, s)]

\* the PackageTagInfo entities; the handlers only read them
PackageTags ==
  {[package |-> <<"p">>, ecosystem |-> Go, tag |-> <<"1", ".", "0">>,
    bugs |-> <<IdStr(1)>>],
   [package |-> <<"p">>, ecosystem |-> Go, tag |-> <<"1", ".", "2">>,
    bugs |-> <<IdStr(1), IdStr(2)>>],
   [package |-> <<"p">>, ecosystem |-> Go, tag |-> <<"2", ".", "0">>,
    bugs |-> <<>>],
   [package |-> <<"p", "/", "p">>, ecosystem |-> Go, tag |-> <<"0", ".", "1">>,
    bugs |-> <<IdStr(2)>>],
   [package |-> <<"p">>, ecosystem |-> Npm, tag |-> <<"1", ".", "0">>,
    bugs |-> <<IdStr(3)>>]}

\* osv.vulnerability_to_dict(bug.to_vulnerability()), reduced to the keys
\* the handlers and the link helpers read
vulnerability_to_dict(bug) ==
  [id |-> bug.key, affects |-> [ranges |-> bug.ranges]]

\* osv.get_source_repository(name): the repository record, or nothing
NoRepo == [kind |-> "None"]
get_source_repository(name) ==
  IF name = <<"oss-fuzz">>
    THEN [kind |-> "repo", link |-> <<"https://github.com/google/oss-fuzz-vulns/blob/main/">>]
    ELSE NoRepo

\* osv.source_path(source_repo, bug)
source_path(source_repo, bug) == bug.key \o <<".yaml">>

\* Bug.get_by_id(id): the index of the entity with that key, 0 for None
get_by_id(id) ==
  IF \E i \in 1..Len(store) : store[i].key = id
    THEN CHOOSE i \in 1..Len(store) : store[i].key = id
    ELSE 0

\* the datastore's order for order(-Bug.last_modified): newest first, equal
\* timestamps in key order
Before(i, j) ==
  \/ store[i].last_modified > store[j].last_modified
  \/ store[i].last_modified = store[j].last_modified /\ i < j

\* the result list of an ordered query over the entities M
RECURSIVE OrderedFrom(_, _)
OrderedFrom(M, acc) ==
  IF M = {} THEN acc
  ELSE LET x == CHOOSE i \in M : \A j \in M : i <= j
           p == Cardinality({k \in 1..Len(acc) : Before(acc[k], x)})
       IN  OrderedFrom(M \ {x},
                       SubSeq(acc, 1, p) \o <<x>> \o SubSeq(acc, p + 1, Len(acc)))

Ordered(M) == OrderedFrom(M, <<>>)

\* query.fetch_page(page_size, offset) on a result list: the entities from
\* position offset on, at most page_size of them
fetch_page(results, page_size, offset) ==
  LET first == offset + 1
      lastPos == IF offset + page_size < Len(results)
                   THEN offset + page_size ELSE Len(results)
  IN  IF first > lastPos THEN <<>> ELSE SubSeq(results, first, lastPos)

(***************************************************************************)
(* The module constants and the production switch                          *)
(***************************************************************************)
_PAGE_SIZE == 16
_REQUESTS_PER_MIN == 30

\* os.getenv('GAE_ENV', '').startswith('standard'); the variable's value is
\* a sequence of words
_is_prod == Len(gae_env) >= 1 /\ gae_env[1] = "standard"

\* The limiter built with the wrong module constant
LimiterBudgetPageSize == _PAGE_SIZE

\* requests_per_min as RateLimiter is constructed
limiter_requests_per_min == _REQUESTS_PER_MIN

(***************************************************************************)
(* rate_limiter.RateLimiter (not part of this file): an atomic             *)
(* increment-and-get on the key of the client and the current window       *)
(***************************************************************************)
CounterKey(ip_addr) == <<ip_addr, now>>

CounterGet(key) == IF key \in DOMAIN counter THEN counter[key] ELSE 0

\* the backend after incrementAndGet(key): the key is created on first use
Incremented(key) ==
  [k \in DOMAIN counter \cup {key} |->
     IF k = key THEN CounterGet(key) + 1 ELSE counter[k]]

\* check_request's verdict on the count the increment returned
WithinBudget(count) == count <= limiter_requests_per_min

(***************************************************************************)
(* The response builders                                                   *)
(***************************************************************************)
\* add_source_info(bug, response)
add_source_info(bug, response) ==
  LET source_repo == get_source_repository(bug.source)
      source == source_repo.link \o source_path(source_repo, bug)
  IN  IF bug.source_of_truth = "INTERNAL"
        THEN DictSet(response, "source", <<"INTERNAL">>)
      ELSE IF source_repo = NoRepo \/ source_repo.link = <<>> THEN response
      ELSE DictSet(DictSet(response, "source", source), "source_link", source)

\* bug_to_response(bug, detailed)
bug_to_response(bug, detailed) ==
  LET response == DictSet(DictSet(vulnerability_to_dict(bug),
                                  "isFixed", bug.is_fixed),
                          "invalid", bug.status = "INVALID")
  IN  IF detailed THEN add_source_info(bug, add_links(response))
      ELSE response

NoBody == [kind |-> "None"]

\* a finished request: the status sent, the body, and the datastore
\* operations the handler ran
Response(route, args, status, body, ops) ==
  [route |-> route, args |-> args, status |-> status, body |-> body,
   store_ops |-> ops]

\* abort(code)
Abort(route, args, code, ops) == Response(route, args, code, NoBody, ops)

\* an exception the handler does not catch: Flask answers 500
Unhandled(route, args, ops) == Response(route, args, 500, NoBody, ops)

(***************************************************************************)
(* query_handler                                                           *)
(***************************************************************************)
\* The base query without the public filter
BaseQueryNoPublic == {i \in 1..Len(store) : store[i].status = "PROCESSED"}

\* Bug.query(Bug.status == PROCESSED, Bug.public == True)
BaseQuery ==
  {i \in 1..Len(store) : store[i].status = "PROCESSED" /\ store[i].public}

\* The page number used as the offset's multiplier
PageOffsetOffByOne(page) == page * _PAGE_SIZE

\* offset=(page - 1) * _PAGE_SIZE
PageOffset(page) == (page - 1) * _PAGE_SIZE

\* the entities the filtered query matches
QueryMatches(args) ==
  LET search_string == DictGet(args, "search")
      affected_only == DictGet(args, "affected_only") = <<"true">>
      ecosystem == DictGet(args, "ecosystem")
      q1 == IF Truthy(search_string)
              THEN {i \in BaseQuery : Lower(search_string) \in store[i].search_indices}
              ELSE BaseQuery
      q2 == IF affected_only THEN {i \in q1 : store[i].has_affected} ELSE q1
  IN  IF Truthy(ecosystem) THEN {i \in q2 : store[i].ecosystem = ecosystem}
      ELSE q2

\* query_handler: int() of a malformed page raises ValueError before any
\* datastore call; a negative offset is refused by the datastore when the
\* page is fetched, after the count
QueryResponse(args) ==
  LET page == IF "page" \in DOMAIN args THEN PyInt(args["page"])
              ELSE [ok |-> TRUE, val |-> 1]
      results == Ordered(QueryMatches(args))
      offset == PageOffset(page.val)
      bugs == fetch_page(results, _PAGE_SIZE, offset)
  IN  IF ~page.ok THEN Unhandled("query", args, <<>>)
      ELSE IF offset < 0
        THEN Unhandled("query", args, <<"count", "fetch_page">>)
      ELSE Response("query", args, 200,
                    [total |-> Len(results),
                     items |-> [k \in 1..Len(bugs) |->
                                  bug_to_response(store[bugs[k]], FALSE)]],
                    <<"count", "fetch_page">>)

(***************************************************************************)
(* ecosystems_handler and vulnerability_handler                            *)
(***************************************************************************)
\* The listing without the test that drops None and ''
EcosystemsKeepEmpty ==
  Response("ecosystems", <<>>, 200,
           SortedStrs({store[i].ecosystem : i \in 1..Len(store)}),
           <<"query">>)

\* ecosystems_handler: a distinct projection over every Bug entity
EcosystemsResponse ==
  Response("ecosystems", <<>>, 200,
           SortedStrs({store[i].ecosystem : i \in
                         {j \in 1..Len(store) : Truthy(store[j].ecosystem)}}),
           <<"query">>)

\* The visibility test dropped
VulnerabilityNoPublicCheck(args) ==
  LET vuln_id == DictGet(args, "id")
      bug == get_by_id(vuln_id)
  IN  IF ~Truthy(vuln_id) THEN Abort("vulnerability", args, 400, <<>>)
      ELSE IF bug = 0 THEN Abort("vulnerability", args, 404, <<"get_by_id">>)
      ELSE IF store[bug].status = "UNPROCESSED"
        THEN Abort("vulnerability", args, 404, <<"get_by_id">>)
      ELSE Response("vulnerability", args, 200,
                    bug_to_response(store[bug], TRUE), <<"get_by_id">>)

\* vulnerability_handler
VulnerabilityResponse(args) ==
  LET vuln_id == DictGet(args, "id")
      bug == get_by_id(vuln_id)
  IN  IF ~Truthy(vuln_id) THEN Abort("vulnerability", args, 400, <<>>)
      ELSE IF bug = 0 THEN Abort("vulnerability", args, 404, <<"get_by_id">>)
      ELSE IF store[bug].status = "UNPROCESSED"
        THEN Abort("vulnerability", args, 404, <<"get_by_id">>)
      ELSE IF ~store[bug].public
        THEN Abort("vulnerability", args, 403, <<"get_by_id">>)
      ELSE Response("vulnerability", args, 200,
                    bug_to_response(store[bug], TRUE), <<"get_by_id">>)

\* package_handler
PackageResponse(args) ==
  LET package_path == DictGet(args, "package")
      parts == SplitOnce(package_path, "/")
      found == {t \in PackageTags :
                  /\ t.package = parts[2]
                  /\ t.ecosystem = parts[1]
                  /\ t.bugs # <<>>}
      tags_with_bugs == SortedByTagDesc({[tag |-> t.tag, bugs |-> t.bugs] :
                                          t \in found})
  IN  IF ~Truthy(package_path) THEN Abort("package", args, 400, <<>>)
      ELSE IF Len(parts) # 2 THEN Abort("package", args, 400, <<>>)
      ELSE Response("package", args, 200, [bugs |-> tags_with_bugs],
                    <<"query">>)

(***************************************************************************)
(* Requests: what clients send                                             *)
(***************************************************************************)
MaxBugs == 49
MaxSeed == 1
MaxPages == 3
MaxRequests == 32
MaxWindow == 1
MaxBurst == 3
MaxInstances == 3
MaxExtra == 2
GatewayBugs == 2

\* the count both clients have reached when the whole request path is
\* explored: one request short of the budget
GatewayStart == _REQUESTS_PER_MIN - 1

\* the sizes of the stores explored: the smallest ones, and the largest,
\* which span more than two pages
StoreSizes == {n \in 0..MaxBugs : n <= 3 \/ n >= MaxBugs - 3}

Routes == {"index", "ecosystems", "query", "package", "vulnerability"}

IpHeader == "X-Appengine-User-Ip"
ClientIp == <<"10.0.0.1">>
UnknownIp == <<"unknown">>
Clients == {ClientIp, UnknownIp}

HeaderSets == {[x \in {} |-> None], [x \in {IpHeader} |-> ClientIp]}

PageStrs ==
  {<<>>, <<"0">>, <<"1">>, <<"2">>, <<"3">>, <<"4">>, <<"-", "1">>, <<"a">>,
   <<" ", "2">>, <<"1", "a">>}

QueryArgs ==
  {s @@ p @@ a @@ e :
     s \in OptField("search", {<<>>, Fo, <<"F", "O">>, <<"z", "Z">>}),
     p \in OptField("page", PageStrs),
     a \in OptField("affected_only", {<<"true">>, <<"false">>}),
     e \in OptField("ecosystem", {<<>>, Go, Npm})}

PackageArgs ==
  OptField("package", {<<>>, Go, Go \o <<"/", "p">>, Go \o <<"/", "p", "/", "p">>,
                       Npm \o <<"/", "p">>, <<"/", "p">>, PyPI \o <<"/">>})

\* the ids a client may ask for: those stored, one that is not, '' and none
VulnArgs ==
  OptField("id", {<<>>} \cup {IdStr(i) : i \in 1..(Len(store) + 1)})

Filters(args) == [k \in DOMAIN args \ {"page"} |-> args[k]]

Idle == [pc |-> "idle"]
NoResp == [route |-> "none"]
NoCrawl == [pages |-> 0]
NoDecision == [kind |-> "none"]

IssuedInWindow == issued[ClientIp] + issued[UnknownIp]

(***************************************************************************)
(* The request path: Flask runs the before_request hook, when one is       *)
(* registered, and then the view function of the route                     *)
(***************************************************************************)
\* A request for one of the routes arrives.  cont marks a client that goes
\* on to the next page of the search it is paging through.
Receive(routes, cap) ==
  /\ req = Idle
  /\ _is_prod => IssuedInWindow < cap
  /\ \E route \in routes, headers \in HeaderSets, cont \in BOOLEAN :
       /\ cont => route = "query" /\ crawl.pages \in 1..(MaxPages - 1)
       /\ req' = [pc |-> IF _is_prod THEN "before_request" ELSE "view",
                  route |-> route, headers |-> headers, cont |-> cont]
       /\ crawl' = IF cont THEN crawl ELSE NoCrawl
  /\ resp' = NoResp
  /\ UNCHANGED <<gae_env, store, varsRate, inst, varsLink>>

\* a request for any route; in production at most MaxBurst requests past
\* the counts the run starts from
ReceiveAny == Receive(Routes, 2 * GatewayStart + MaxBurst)

\* a request for the main page, at most MaxRequests of them in a window
ReceiveIndex == Receive({"index"}, MaxRequests)

\* The hook with its test inverted
CheckRateLimitInverted ==
  /\ req # Idle /\ req.pc = "before_request"
  /\ LET ip_addr == IF IpHeader \in DOMAIN req.headers
                      THEN req.headers[IpHeader] ELSE UnknownIp
         key == CounterKey(ip_addr)
         count == CounterGet(key) + 1
     IN  /\ counter' = Incremented(key)
         /\ issued' = [issued EXCEPT ![ip_addr] = @ + 1]
         /\ last' = [kind |-> "check", ip |-> ip_addr, window |-> now,
                     n |-> issued[ip_addr], admitted |-> WithinBudget(count)]
         /\ IF ~WithinBudget(count)
              THEN req' = [req EXCEPT !.pc = "view"] /\ resp' = resp
              ELSE req' = Idle /\ resp' = Abort(req.route, <<>>, 429, <<>>)
  /\ UNCHANGED <<gae_env, store, crawl, now, inst, varsLink>>

\* check_rate_limit, the before_request hook registered in production
check_rate_limit ==
  /\ req # Idle /\ req.pc = "before_request"
  /\ LET ip_addr == IF IpHeader \in DOMAIN req.headers
                      THEN req.headers[IpHeader] ELSE UnknownIp
         key == CounterKey(ip_addr)
         count == CounterGet(key) + 1
     IN  /\ counter' = Incremented(key)
         /\ issued' = [issued EXCEPT ![ip_addr] = @ + 1]
         /\ last' = [kind |-> "check", ip |-> ip_addr, window |-> now,
                     n |-> issued[ip_addr], admitted |-> WithinBudget(count)]
         /\ IF WithinBudget(count)
              THEN req' = [req EXCEPT !.pc = "view"] /\ resp' = resp
              ELSE req' = Idle /\ resp' = Abort(req.route, <<>>, 429, <<>>)
  /\ UNCHANGED <<gae_env, store, crawl, now, inst, varsLink>>

Running(route) == req # Idle /\ req.pc = "view" /\ req.route = route

Finish(response) ==
  /\ resp' = response
  /\ req' = Idle
  /\ UNCHANGED <<gae_env, store, varsRate, inst, varsLink>>

\* index
index ==
  /\ Running("index")
  /\ crawl' = NoCrawl
  /\ Finish(Response("index", <<>>, 200, <<"index.html">>, <<>>))

ecosystems_handler ==
  /\ Running("ecosystems")
  /\ crawl' = NoCrawl
  /\ Finish(EcosystemsResponse)

\* the pages fetched in sequence so far, this response included
Crawled(r, cont) ==
  IF r.status # 200 THEN NoCrawl
  ELSE IF cont
    THEN [pages |-> crawl.pages + 1, filters |-> crawl.filters,
          items |-> crawl.items \o r.body.items,
          totals |-> crawl.totals \cup {r.body.total}]
  ELSE IF "page" \notin DOMAIN r.args \/ PyInt(r.args["page"]).val = 1
    THEN [pages |-> 1, filters |-> Filters(r.args), items |-> r.body.items,
          totals |-> {r.body.total}]
  ELSE NoCrawl

query_handler ==
  /\ Running("query")
  /\ \E args \in QueryArgs :
       /\ req.cont =>
            /\ Filters(args) = crawl.filters
            /\ "page" \in DOMAIN args
            /\ PyInt(args["page"]) = [ok |-> TRUE, val |-> crawl.pages + 1]
       /\ LET r == QueryResponse(args)
          IN  /\ crawl' = Crawled(r, req.cont)
              /\ Finish(r)

package_handler ==
  /\ Running("package")
  /\ crawl' = NoCrawl
  /\ \E args \in PackageArgs : Finish(PackageResponse(args))

vulnerability_handler ==
  /\ Running("vulnerability")
  /\ crawl' = NoCrawl
  /\ \E args \in VulnArgs : Finish(VulnerabilityResponse(args))

\* the clock passes into the next one-minute window; the keys of the
\* elapsed window expire in the backend
Tick ==
  /\ now < MaxWindow
  /\ now' = now + 1
  /\ counter' = [k \in {x \in DOMAIN counter : x[2] >= now + 1} |-> counter[k]]
  /\ issued' = [c \in Clients |-> 0]
  /\ UNCHANGED <<gae_env, store, req, resp, crawl, last, inst, varsLink>>

(***************************************************************************)
(* Initial states                                                          *)
(***************************************************************************)
InitRateIdle ==
  /\ now = 0
  /\ counter = <<>>
  /\ issued = [c \in Clients |-> 0]
  /\ last = NoDecision

InitWebIdle ==
  /\ req = Idle
  /\ resp = NoResp
  /\ crawl = NoCrawl

InitInstIdle == inst = <<>>

InitLinkIdle ==
  /\ link = [kind |-> "none"]
  /\ detail = [kind |-> "none"]

\* the search service outside production: no hook is registered
InitQuery ==
  /\ gae_env = <<>>
  /\ \E n \in StoreSizes, s \in 0..MaxSeed : store = MakeStore(n, s)
  /\ InitWebIdle /\ InitRateIdle /\ InitInstIdle /\ InitLinkIdle

NextQuery ==
  \/ ReceiveAny
  \/ index
  \/ ecosystems_handler
  \/ query_handler
  \/ package_handler
  \/ vulnerability_handler

SpecQuery == InitQuery /\ [][NextQuery]_vars

\* the whole request path, in production and outside it
InitGateway ==
  /\ gae_env \in {<<>>, <<"standard">>}
  /\ \E n \in 0..GatewayBugs : store = MakeStore(n, 0)
  /\ now = 0
  /\ counter = [k \in {<<c, 0>> : c \in Clients} |->
                 IF _is_prod THEN GatewayStart ELSE 0]
  /\ issued = [c \in Clients |-> IF _is_prod THEN GatewayStart ELSE 0]
  /\ last = NoDecision
  /\ InitWebIdle /\ InitInstIdle /\ InitLinkIdle

NextGateway ==
  \/ ReceiveAny
  \/ check_rate_limit
  \/ index
  \/ ecosystems_handler
  \/ query_handler
  \/ package_handler
  \/ vulnerability_handler

SpecGateway == InitGateway /\ [][NextGateway]_vars

\* the limiter over several windows, every request going to the main page
InitRate ==
  /\ gae_env = <<"standard">>
  /\ store = MakeStore(0, 0)
  /\ InitWebIdle /\ InitRateIdle /\ InitInstIdle /\ InitLinkIdle

NextRate ==
  \/ ReceiveIndex
  \/ check_rate_limit
  \/ index
  \/ Tick

SpecRate == InitRate /\ [][NextRate]_vars

(***************************************************************************)
(* The hook run by several service instances at once against the one       *)
(* backend: the increment-and-get is one step, the comparison another      *)
(***************************************************************************)
Instances == 1..MaxInstances

InitConc ==
  /\ gae_env = <<"standard">>
  /\ store = MakeStore(0, 0)
  /\ InitWebIdle /\ InitRateIdle /\ InitLinkIdle
  /\ inst = [procs |-> [i \in Instances |-> [pc |-> "idle", count |-> 0]],
             started |-> 0, admitted |-> 0, rejected |-> 0]

\* instance i takes one of the client's requests
InstReceive(i) ==
  /\ inst.procs[i].pc = "idle"
  /\ inst.started < _REQUESTS_PER_MIN + MaxExtra
  /\ inst' = [inst EXCEPT !.procs[i].pc = "before_request",
                          !.started = @ + 1]
  /\ UNCHANGED <<varsWeb, varsRate, varsLink>>

\* limiter.check_request reaches the backend: the atomic increment-and-get
InstIncrement(i) ==
  /\ inst.procs[i].pc = "before_request"
  /\ counter' = Incremented(CounterKey(ClientIp))
  /\ inst' = [inst EXCEPT !.procs[i] =
                [pc |-> "compare", count |-> CounterGet(CounterKey(ClientIp)) + 1]]
  /\ UNCHANGED <<varsWeb, now, issued, last, varsLink>>

\* The limiter's verdict ignored: no request is aborted
InstCompareNoAbort(i) ==
  /\ inst.procs[i].pc = "compare"
  /\ inst' = [inst EXCEPT !.procs[i] = [pc |-> "idle", count |-> 0],
                          !.admitted = @ + 1]
  /\ UNCHANGED <<varsWeb, varsRate, varsLink>>

\* if not limiter.check_request(ip_addr): abort(429)
InstCompare(i) ==
  /\ inst.procs[i].pc = "compare"
  /\ inst' = [inst EXCEPT
                !.procs[i] = [pc |-> "idle", count |-> 0],
                !.admitted = IF WithinBudget(inst.procs[i].count) THEN @ + 1 ELSE @,
                !.rejected = IF WithinBudget(inst.procs[i].count) THEN @ ELSE @ + 1]
  /\ UNCHANGED <<varsWeb, varsRate, varsLink>>

ConcReceive == \E i \in Instances : InstReceive(i)
ConcIncrement == \E i \in Instances : InstIncrement(i)
ConcCompare == \E i \in Instances : InstCompare(i)

NextConc == ConcReceive \/ ConcIncrement \/ ConcCompare

SpecConc == InitConc /\ [][NextConc]_vars

(***************************************************************************)
(* The link helpers applied to every input                                 *)
(***************************************************************************)
NoCall == [kind |-> "none"]

InitLink ==
  /\ gae_env = <<>>
  /\ store = MakeStore(0, 0)
  /\ InitWebIdle /\ InitRateIdle /\ InitInstIdle
  /\ link = NoCall
  /\ detail = NoCall

CommitToLink ==
  /\ link = NoCall /\ detail = NoCall
  /\ \E repo_url \in RepoUrls, commit \in Commits :
       link' = [kind |-> "call", repo |-> repo_url, commit |-> commit,
                out |-> _commit_to_link(repo_url, commit)]
  /\ detail' = NoCall
  /\ UNCHANGED <<varsWeb, varsRate, inst>>

AddLinks ==
  /\ link = NoCall /\ detail = NoCall
  /\ \E bug \in LinkBugs :
       detail' = [kind |-> "call", before |-> bug, after |-> add_links(bug)]
  /\ link' = NoCall
  /\ UNCHANGED <<varsWeb, varsRate, inst>>

\* the caller is done with the result
LinkReturn ==
  /\ link # NoCall \/ detail # NoCall
  /\ link' = NoCall
  /\ detail' = NoCall
  /\ UNCHANGED <<varsWeb, varsRate, inst>>

NextLink == CommitToLink \/ AddLinks \/ LinkReturn

SpecLink == InitLink /\ [][NextLink]_vars

(***************************************************************************)
(* C9 and C10: the link helpers                                            *)
(***************************************************************************)
\* what the claims say of a commit reference, read off the string itself
SepPositions(s) == {i \in 1..Len(s) : s[i] = ":"}
NumSeps(s) == Cardinality(SepPositions(s))
OnlySep(s) == CHOOSE i \in SepPositions(s) : TRUE
StartOf(s) == SubSeq(s, 1, OnlySep(s) - 1)
EndOf(s) == SubSeq(s, OnlySep(s) + 1, Len(s))
Resolves(repo_url) == get_vcs_viewer_for_url(repo_url) # NoVcs

\* C9: commit-link resolution returns no link when no VCS viewer resolves
\* for the URL; the viewer's single-revision URL when the reference holds no
\* ':'; with exactly one ':', no link when the start is "unknown" and the
\* viewer's range URL for (start, end) otherwise; no link with more than
\* one ':'; and it raises in none of these cases.
C9_CommitLinkCases ==
  link.kind = "call" =>
    LET vcs == get_vcs_viewer_for_url(link.repo)
        c == link.commit
    IN  /\ link.out.kind # "raise"
        /\ ~Resolves(link.repo) => link.out = NoLink
        /\ Resolves(link.repo) /\ NumSeps(c) = 0 =>
             link.out = get_source_url_for_revision(vcs, link.repo, c)
        /\ Resolves(link.repo) /\ NumSeps(c) = 1 =>
             IF StartOf(c) = unknown
               THEN link.out = NoLink
               ELSE link.out = get_source_url_for_revision_diff(
                                 vcs, link.repo, StartOf(c), EndOf(c))
        /\ NumSeps(c) > 1 => link.out = NoLink

\* a resolvable repository and a reference with two separators: no link
C9_Witness ==
  /\ link.kind = "call"
  /\ Resolves(link.repo)
  /\ NumSeps(link.commit) = 2
  /\ link.out = NoLink

RangesAfter ==
  IF detail.kind = "call" /\ "affects" \in DOMAIN detail.after
       /\ "ranges" \in DOMAIN detail.after["affects"]
    THEN {detail.after["affects"]["ranges"][i] :
            i \in 1..Len(detail.after["affects"]["ranges"])}
    ELSE {}

LinkKeyOf(ref) == IF ref = "introduced" THEN "introduced_link" ELSE "fixed_link"

C1_RejectedIffBudgetSpent ==
  /\ last.kind = "check" =>
       /\ ~last.admitted <=> last.n >= _REQUESTS_PER_MIN
       /\ resp # NoResp =>
            (resp.status = 429 <=> last.n >= _REQUESTS_PER_MIN)
  /\ \A c \in Clients : CounterGet(<<c, now>>) = issued[c]

\* in a later window a client has made 30 requests and the 31st is rejected
C1_Witness ==
  /\ now >= 1
  /\ last.kind = "check" /\ last.window = now
  /\ last.n = _REQUESTS_PER_MIN
  /\ ~last.admitted

AllIdle == \A i \in Instances : inst.procs[i].pc = "idle"

\* C2: of the requests one client issues in one window through instances
\* that run the hook concurrently, exactly the first 30 counted are admitted
\* and the rest rejected, however the increment and comparison steps of the
\* instances interleave: never more than 30 admitted, and once no request
\* is in flight, min(requests, 30) admitted and the others rejected.
C2_ExactlyBudgetAdmitted ==
  /\ inst.admitted <= _REQUESTS_PER_MIN
  /\ AllIdle =>
       /\ inst.admitted = IF inst.started <= _REQUESTS_PER_MIN
                            THEN inst.started ELSE _REQUESTS_PER_MIN
       /\ inst.rejected = inst.started - inst.admitted

\* budget + k requests have all been decided: k of them rejected
C2_Witness ==
  /\ AllIdle
  /\ inst.started = _REQUESTS_PER_MIN + MaxExtra
  /\ inst.admitted = _REQUESTS_PER_MIN
  /\ inst.rejected = MaxExtra

\* the client identifier as the claim gives it
ClientOf(headers) ==
  IF IpHeader \in DOMAIN headers THEN headers[IpHeader] ELSE UnknownIp

\* C3: in production a request reaches its view function only after the
\* limiter has admitted it under the client identifier of the forwarded-IP
\* header, "unknown" without the header; a request the limiter rejects ends
\* with 429, without a body and without any datastore operation.
C3_AdmissionBeforeHandler ==
  _is_prod =>
    /\ req # Idle /\ req.pc = "view" =>
         /\ last.kind = "check" /\ last.admitted
         /\ last.ip = ClientOf(req.headers)
    /\ resp # NoResp =>
         /\ last.kind = "check"
         /\ last.admitted <=> resp.status # 429
         /\ ~last.admitted => resp.body = NoBody /\ resp.store_ops = <<>>

\* a search request without the header is rejected in the "unknown" bucket
C3_Witness ==
  /\ _is_prod
  /\ resp # NoResp /\ resp.route = "query" /\ resp.status = 429
  /\ resp.store_ops = <<>>
  /\ last.ip = UnknownIp /\ ~last.admitted

(***************************************************************************)
(* C4 to C8: the handlers                                                  *)
(***************************************************************************)
\* the entity a response item was made from
EntityOf(item) == store[CHOOSE i \in 1..Len(store) : store[i].key = item["id"]]

IsQueryOk == resp # NoResp /\ resp.route = "query" /\ resp.status = 200

\* what the claims call the matching records of a filter set
Matching(filters) ==
  {i \in 1..Len(store) :
     /\ store[i].status = "PROCESSED"
     /\ store[i].public
     /\ ("search" \in DOMAIN filters /\ filters["search"] # <<>>) =>
          Lower(filters["search"]) \in store[i].search_indices
     /\ ("affected_only" \in DOMAIN filters
           /\ filters["affected_only"] = <<"true">>) => store[i].has_affected
     /\ ("ecosystem" \in DOMAIN filters /\ filters["ecosystem"] # <<>>) =>
          store[i].ecosystem = filters["ecosystem"]}

\* C4: whatever the filters and the page, every item the search returns is a
\* record with status PROCESSED and public true, and it satisfies every
\* filter given: the filters narrow the base predicate, never replace it.
C4_SearchReturnsOnlyPublicProcessed ==
  IsQueryOk =>
    \A k \in 1..Len(resp.body.items) :
      LET bug == EntityOf(resp.body.items[k])
      IN  /\ bug.status = "PROCESSED"
          /\ bug.public
          /\ \E i \in Matching(Filters(resp.args)) : store[i] = bug

\* a filtered search returned items although a record that is not public
\* satisfies the same filters
C4_Witness ==
  /\ IsQueryOk
  /\ Len(resp.body.items) > 0
  /\ "ecosystem" \in DOMAIN resp.args /\ resp.args["ecosystem"] = Go
  /\ \E i \in 1..Len(store) :
       /\ ~store[i].public /\ store[i].status = "PROCESSED"
       /\ store[i].ecosystem = Go

IdExists(id) == \E i \in 1..Len(store) : store[i].key = id
EntityById(id) == store[CHOOSE i \in 1..Len(store) : store[i].key = id]

\* the outcome the claim gives a fetch of id
ExpectedFetchStatus(args) ==
  IF "id" \notin DOMAIN args \/ args["id"] = <<>> THEN 400
  ELSE IF ~IdExists(args["id"]) THEN 404
  ELSE IF EntityById(args["id"]).status = "UNPROCESSED" THEN 404
  ELSE IF ~EntityById(args["id"]).public THEN 403
  ELSE 200

\* C5: a single-record fetch ends 400 when the id is missing or empty, 404
\* when no record has the id or the record is UNPROCESSED, 403 when the
\* record is not public, and otherwise with the detailed response of that
\* record, which therefore exists, is not UNPROCESSED and is public.
C5_FetchOutcomes ==
  resp # NoResp /\ resp.route = "vulnerability" =>
    /\ resp.status = ExpectedFetchStatus(resp.args)
    /\ resp.status # 200 => resp.body = NoBody
    /\ resp.status = 200 =>
         /\ resp.body["id"] = resp.args["id"]
         /\ IdExists(resp.args["id"])
         /\ EntityById(resp.args["id"]).status # "UNPROCESSED"
         /\ EntityById(resp.args["id"]).public
         /\ \A k \in 1..Len(resp.body["affects"]["ranges"]) :
              "id" \in DOMAIN resp.body["affects"]["ranges"][k]

\* a record that is INVALID and not public was asked for: 403
C5_Witness ==
  /\ resp # NoResp /\ resp.route = "vulnerability" /\ resp.status = 403
  /\ EntityById(resp.args["id"]).status = "INVALID"

PageOf(args) == IF "page" \in DOMAIN args THEN PyInt(args["page"]).val ELSE 1

Min(a, b) == IF a < b THEN a ELSE b

\* C6: with T matching records and pages of 16, page p (>= 1) holds exactly
\* min(16, T - offset) items for offset = (p - 1) * 16, none when
\* offset >= T, and reports total = T; and the pages 1..n fetched in
\* sequence, once n * 16 >= T, hold exactly the T matching records, each
\* once, newest first.
C6_PaginationComplete ==
  /\ IsQueryOk =>
       LET T == Cardinality(Matching(Filters(resp.args)))
           offset == (PageOf(resp.args) - 1) * 16
       IN  /\ resp.body.total = T
           /\ Len(resp.body.items) =
                IF offset >= T THEN 0 ELSE Min(16, T - offset)
  /\ crawl.pages >= 1 =>
       LET M == Matching(crawl.filters)
           T == Cardinality(M)
           n == Len(crawl.items)
       IN  /\ crawl.totals = {T}
           /\ n = Min(T, crawl.pages * 16)
           /\ \A k \in 1..n : \E i \in M : store[i].key = crawl.items[k]["id"]
           /\ \A j, k \in 1..n :
                j < k =>
                  /\ crawl.items[j]["id"] # crawl.items[k]["id"]
                  /\ EntityOf(crawl.items[j]).last_modified
                       >= EntityOf(crawl.items[k]).last_modified
           /\ crawl.pages * 16 >= T =>
                \A i \in M : \E k \in 1..n : crawl.items[k]["id"] = store[i].key

\* three pages fetched in sequence hold all of more than 32 matching records
C6_Witness ==
  /\ crawl.pages = 3
  /\ Len(crawl.items) > 32
  /\ Len(crawl.items) = Cardinality(Matching(crawl.filters))

\* C7: a search request whose page parameter is not numeric or is less than
\* 1 ends with 400 and runs no datastore operation.
C7_MalformedPageIs400 ==
  (/\ resp # NoResp /\ resp.route = "query"
   /\ "page" \in DOMAIN resp.args
   /\ (~PyInt(resp.args["page"]).ok \/ PyInt(resp.args["page"]).val < 1))
    => resp.status = 400 /\ resp.store_ops = <<>>

IsEcosystems == resp # NoResp /\ resp.route = "ecosystems"

Listed == {resp.body[k] : k \in 1..Len(resp.body)}

Ascending ==
  \A k \in 1..(Len(resp.body) - 1) : StrLess(resp.body[k], resp.body[k + 1])

\* C8 as stated: the listing holds exactly the distinct non-empty ecosystem
\* values of the PROCESSED records, sorted ascending.
C8_EcosystemsOfProcessed ==
  IsEcosystems =>
    /\ Listed = {store[i].ecosystem : i \in
                   {j \in 1..Len(store) : store[j].status = "PROCESSED"
                      /\ store[j].ecosystem \notin {None, <<>>}}}
    /\ Ascending

\* C8, amended: the listing holds exactly the distinct non-empty ecosystem
\* values of all records, whatever their status, sorted ascending.
C8_EcosystemsOfAllRecords ==
  IsEcosystems =>
    /\ Listed = {store[i].ecosystem : i \in
                   {j \in 1..Len(store) :
                      store[j].ecosystem \notin {None, <<>>}}}
    /\ Ascending

\* the listing holds an ecosystem that no PROCESSED record carries
C8_Witness ==
  /\ IsEcosystems
  /\ \E e \in Listed :
       \A i \in 1..Len(store) :
         store[i].ecosystem = e => store[i].status # "PROCESSED"

====
